---- MODULE Spec2Model ----
(***************************************************************************)
(* Habit-Tracking-App: the SQLite store (habits, tasks, reports), the      *)
(* sync_tasks command (finish detection, archival, refill), the ORM-level  *)
(* archival Report.generate, and the commands that create and delete       *)
(* habits and complete tasks.                                              *)
(*                                                                         *)
(* Time is counted in whole days; day 0 is 1 January of a non-leap year.   *)
(* Every command runs in a process of its own, so "now" is constant while  *)
(* one command runs and advances only between commands.                    *)
(*                                                                         *)
(* Spec runs the commands with every command step taking effect as the     *)
(* code commits it when nothing fails; SpecFail runs sync_tasks one        *)
(* committed statement at a time and lets a statement raise; SpecOrm uses  *)
(* the classes Habit, Task and Report directly, their delete() included.   *)
(*                                                                         *)
(* commands/sync_tasks.py calls db.create_task_from_habit, which db.py     *)
(* does not define; its body is the loop of main.py (sync_tasks) that the  *)
(* TODO there asks to move into a function of its own.                     *)
(***************************************************************************)
EXTENDS Integers, Sequences, FiniteSets, TLC

\* ------------------------------------------------------------------ bounds
MaxHabitId == 2      \* habits ever inserted (AUTOINCREMENT never reuses an id)
MaxTaskId  == 6      \* tasks ever inserted
MaxReports == 3      \* reports ever inserted
StartDay   == 31     \* the day the database is created: 1 February
MaxOrmTaskId  == 2   \* tasks ever inserted through the ORM layer (SpecOrm)
MaxOrmReports == 1   \* reports stored, and streak reached, in SpecOrm

\* ------------------------------------------------------- program constants
NULL == -1           \* SQL NULL / Python None in an integer column

DAILY   == "Every Day"
WEEKLY  == "Every Week"
MONTHLY == "Every Month"

Periodicity == {DAILY, WEEKLY, MONTHLY}

\* Lengths of the months of a non-leap year, as SQLite's date arithmetic
\* sees them.
MonthLen == <<31, 28, 31, 30, 31, 30, 31, 31, 30, 31, 30, 31>>

\* ------------------------------------------------------------------ inputs
\* The habits a user may ask for: (name, periodicity, template).
HabitInputs ==
    { [name |-> "a", periodicity |-> DAILY,   template |-> <<"x", "y">>],
      [name |-> "a", periodicity |-> WEEKLY,  template |-> <<"x">>],
      [name |-> "b", periodicity |-> MONTHLY, template |-> <<"x", "y">>],
      [name |-> "b", periodicity |-> DAILY,   template |-> << >>] }

\* The days on which commands are run after the day of creation: one day,
\* one week, four weeks and thirty days later.
Moments == {StartDay + 1, StartDay + 7, StartDay + 28, StartDay + 30}

VARIABLES
    habits,       \* table habits: id_habit -> row
    tasks,        \* table tasks: id_task -> row
    reports,      \* table reports, in id_report order
    nextHabitId,  \* sqlite_sequence of habits
    nextTaskId,   \* sqlite_sequence of tasks
    now,          \* the wall clock, in days
    pc,           \* position of the running sync_tasks command, or "idle"
    queue,        \* rows still to be processed by the running loop
    pre           \* the store as the running sync_tasks command found it

vars == <<habits, tasks, reports, nextHabitId, nextTaskId, now, pc, queue,
          pre>>

\* ----------------------------------------------------------------- helpers
RECURSIVE SortedSeq(_)
\* The elements of a finite set of integers in increasing (rowid) order.
SortedSeq(S) ==
    IF S = {} THEN << >>
    ELSE LET m == CHOOSE x \in S : \A y \in S : x <= y
         IN  <<m>> \o SortedSeq(S \ {m})

TasksOf(ts, h) == {t \in DOMAIN ts : ts[t].id_habit = h}

CompletedTasksCount(ts, h) ==
    Cardinality({t \in TasksOf(ts, h) : ts[t].completed})

UncompletedTasksCount(ts, h) ==
    Cardinality({t \in TasksOf(ts, h) : ~ts[t].completed})

ReportsOf(rs, h) == {i \in 1..Len(rs) : rs[i].id_habit = h}

\* ---------------------------------------------------- SQLite date modifiers
RECURSIVE MonthStart(_)
\* Day number of the first day of month m (1..12); month 0 is December of
\* the year before.
MonthStart(m) ==
    IF m = 0 THEN 0 - 31
    ELSE IF m = 1 THEN 0
    ELSE MonthStart(m - 1) + MonthLen[m - 1]

MonthOf(d) ==
    CHOOSE m \in 1..12 : MonthStart(m) <= d /\ d < MonthStart(m) + MonthLen[m]

\* MinusOneDay that takes nothing off.
MinusOneDayNone(d) == d

\* datetime(d, '-1 DAY')
MinusOneDay(d) == d - 1

\* datetime(d, '-1 WEEK'): SQLite has no such modifier and yields NULL.
MinusOneWeek(d) == NULL

\* datetime(d, '-1 MONTH'): same day of the month in the month before; a day
\* past the end of that month runs over into the next one.
MinusOneMonth(d) ==
    LET m == MonthOf(d) IN MonthStart(m - 1) + (d - MonthStart(m))

\* a <= b in SQL: false (NULL) when b is NULL.
SqlLeq(a, b) == b # NULL /\ a <= b

\* SyncStatesFinished whose last disjunct asks for at least one task.
SyncStatesFinishedNonEmpty(hs, ts, id, n) ==
    \/ SqlLeq(hs[id].updated_at, MinusOneDay(n))
         /\ hs[id].periodicity = DAILY
    \/ SqlLeq(hs[id].updated_at, MinusOneWeek(n))
         /\ hs[id].periodicity = WEEKLY
    \/ SqlLeq(hs[id].updated_at, MinusOneMonth(n))
         /\ hs[id].periodicity = MONTHLY
    \/ UncompletedTasksCount(ts, id) = 0 /\ TasksOf(ts, id) # {}

\* The where clause of DB.sync_states, for the habit with id id at time n.
SyncStatesFinished(hs, ts, id, n) ==
    \/ SqlLeq(hs[id].updated_at, MinusOneDay(n))
         /\ hs[id].periodicity = DAILY
    \/ SqlLeq(hs[id].updated_at, MinusOneWeek(n))
         /\ hs[id].periodicity = WEEKLY
    \/ SqlLeq(hs[id].updated_at, MinusOneMonth(n))
         /\ hs[id].periodicity = MONTHLY
    \/ UncompletedTasksCount(ts, id) = 0

\* SyncStatesRow whose second count lacks the "completed is not TRUE" filter.
SyncStatesRowCountAll(hs, ts, id) ==
    [id_habit                |-> id,
     name                    |-> hs[id].name,
     streak                  |-> hs[id].streak,
     completed_tasks_count   |-> CompletedTasksCount(ts, id),
     uncompleted_tasks_count |-> Cardinality(TasksOf(ts, id))]

\* One row of the result of DB.sync_states.
SyncStatesRow(hs, ts, id) ==
    [id_habit                |-> id,
     name                    |-> hs[id].name,
     streak                  |-> hs[id].streak,
     completed_tasks_count   |-> CompletedTasksCount(ts, id),
     uncompleted_tasks_count |-> UncompletedTasksCount(ts, id)]

\* DB.sync_states: the finished habits, in rowid order.
SyncStates(hs, ts, n) ==
    LET ids == SortedSeq({id \in DOMAIN hs : SyncStatesFinished(hs, ts, id, n)})
    IN  [i \in 1..Len(ids) |-> SyncStatesRow(hs, ts, ids[i])]

\* DB.select_tasks(id_habit) / [task.to_json() for task in task_list]: the
\* task rows of one habit in rowid order (the report's raw_data).
SelectTasks(ts, h) ==
    LET ids == SortedSeq(TasksOf(ts, h))
    IN  [i \in 1..Len(ids) |->
            [id_task   |-> ids[i],
             task      |-> ts[ids[i]].task,
             completed |-> ts[ids[i]].completed]]

\* SelectHabitsToFulfill without the "count(*) = 0" filter: every habit.
SelectHabitsToFulfillAll(hs, ts) ==
    LET ids == SortedSeq(DOMAIN hs)
    IN  [i \in 1..Len(ids) |->
            [id_habit |-> ids[i], template |-> hs[ids[i]].template]]

\* DB.select_habits_to_fulfill: the habits that own no task, in rowid order.
SelectHabitsToFulfill(hs, ts) ==
    LET ids == SortedSeq({id \in DOMAIN hs : TasksOf(ts, id) = {}})
    IN  [i \in 1..Len(ids) |->
            [id_habit |-> ids[i], template |-> hs[ids[i]].template]]

\* CleanupTasks that deletes only the completed tasks of the habit.
CleanupTasksCompletedOnly(ts, h) ==
    [t \in DOMAIN ts \ {u \in TasksOf(ts, h) : ts[u].completed} |-> ts[t]]

\* CleanupTasks that deletes only the uncompleted tasks of the habit.
CleanupTasksUncompletedOnly(ts, h) ==
    [t \in DOMAIN ts \ {u \in TasksOf(ts, h) : ~ts[u].completed} |-> ts[t]]

\* DB.cleanup_tasks / the task.delete() loop of Report.generate.
CleanupTasks(ts, h) ==
    [t \in DOMAIN ts \ TasksOf(ts, h) |-> ts[t]]

\* BumpStreak that adds two.
BumpStreakByTwo(hs, h, n) ==
    [hs EXCEPT ![h].streak = @ + 2, ![h].updated_at = n]

\* DB.bump_streak.
BumpStreak(hs, h, n) ==
    [hs EXCEPT ![h].streak = @ + 1, ![h].updated_at = n]

\* ResetStreak that takes one off the streak instead of clearing it.
ResetStreakDecrement(hs, h, n) ==
    [hs EXCEPT ![h].streak = @ - 1, ![h].updated_at = n]

\* DB.reset_streak.
ResetStreak(hs, h, n) ==
    [hs EXCEPT ![h].streak = 0, ![h].updated_at = n]

\* The row DB.generate_report inserts for the sync_states row r: the row has
\* no key 'current_streak', so habit.get('current_streak') is None.
GenerateReportRow(r, ts) ==
    [id_habit                |-> r.id_habit,
     name                    |-> r.name,
     current_streak          |-> NULL,
     completed_tasks_count   |-> r.completed_tasks_count,
     uncompleted_tasks_count |-> r.uncompleted_tasks_count,
     raw_data                |-> SelectTasks(ts, r.id_habit)]

\* GenerateReportStreak with an empty batch not counted as completed.
GenerateReportStreakNonEmpty(hs, r, n) ==
    IF r.uncompleted_tasks_count = 0 /\ r.completed_tasks_count > 0
    THEN BumpStreak(hs, r.id_habit, n)
    ELSE ResetStreak(hs, r.id_habit, n)

\* The streak update at the end of DB.generate_report.
GenerateReportStreak(hs, r, n) ==
    IF r.uncompleted_tasks_count = 0
    THEN BumpStreak(hs, r.id_habit, n)
    ELSE ResetStreak(hs, r.id_habit, n)

\* The row Report.save inserts for habit h.
ReportSaveRow(hs, ts, h) ==
    [id_habit                |-> h,
     name                    |-> hs[h].name,
     current_streak          |-> hs[h].streak,
     completed_tasks_count   |-> CompletedTasksCount(ts, h),
     uncompleted_tasks_count |->
         Cardinality(TasksOf(ts, h)) - CompletedTasksCount(ts, h),
     raw_data                |-> SelectTasks(ts, h)]

\* The streak update of Report.generate; habit.save() writes back the
\* updated_at it has read.
ReportGenerateStreak(hs, ts, h) ==
    [hs EXCEPT ![h].streak =
        IF CompletedTasksCount(ts, h) = Cardinality(TasksOf(ts, h))
        THEN @ + 1 ELSE 0]

\* CreateTasks that walks the template from its last entry to its first.
CreateTasksReversed(ts, h, tpl, first) ==
    [t \in DOMAIN ts \cup (first..(first + Len(tpl) - 1)) |->
        IF t \in DOMAIN ts THEN ts[t]
        ELSE [id_habit |-> h, task |-> tpl[Len(tpl) - (t - first)],
              completed |-> FALSE]]

\* CreateTasks that stops after the first template entry.
CreateTasksFirstOnly(ts, h, tpl, first) ==
    [t \in DOMAIN ts \cup (first..(first + (IF tpl = << >> THEN 0 ELSE 1) - 1))
        |-> IF t \in DOMAIN ts THEN ts[t]
            ELSE [id_habit |-> h, task |-> tpl[1], completed |-> FALSE]]

\* The tasks DB.create_task inserts for the template tpl of habit h, the
\* first of them with id_task first.
CreateTasks(ts, h, tpl, first) ==
    [t \in DOMAIN ts \cup (first..(first + Len(tpl) - 1)) |->
        IF t \in DOMAIN ts THEN ts[t]
        ELSE [id_habit |-> h, task |-> tpl[t - first + 1],
              completed |-> FALSE]]

RECURSIVE TemplateTotal(_, _)
\* Number of template entries of the habits in S.
TemplateTotal(hs, S) ==
    IF S = {} THEN 0
    ELSE LET h == CHOOSE x \in S : TRUE
         IN  Len(hs[h].template) + TemplateTotal(hs, S \ {h})

\* The habits one sync_tasks run started now would archive, and the number
\* of tasks its refill would insert.
FinishedNow == {id \in DOMAIN habits : SyncStatesFinished(habits, tasks, id, now)}
RefillNeed ==
    TemplateTotal(habits,
        FinishedNow \cup {id \in DOMAIN habits : TasksOf(tasks, id) = {}})

\* MAX(column) of SQL over the values S: NULLs are skipped, and the result
\* is NULL when nothing is left.
SqlMax(S) ==
    LET vals == S \ {NULL}
    IN  IF vals = {} THEN NULL
        ELSE CHOOSE m \in vals : \A v \in vals : v <= m

\* DB.report_longest_streak_given_habit(id_habit): the "Highest Streak"
\* column of the one row it returns.
ReportLongestStreakGivenHabit(rs, h) ==
    SqlMax({rs[i].current_streak : i \in ReportsOf(rs, h)})

\* DB.report_longest_streak: the "Highest Streak" column of its one row.
ReportLongestStreak(rs) ==
    SqlMax({rs[i].current_streak : i \in 1..Len(rs)})

\* Referenced on a connection that never ran "PRAGMA foreign_keys = ON".
ReferencedNever(h) == FALSE

\* The rows of other tables that reference habit h (foreign keys are ON).
Referenced(h) == TasksOf(tasks, h) # {} \/ ReportsOf(reports, h) # {}

\* ------------------------------------------------------------------- state
\* No sync_tasks command is running.
NoPre == [habits |-> << >>, tasks |-> << >>, nreports |-> 0, nextTaskId |-> 0]

Init ==
    /\ habits = << >>
    /\ tasks = << >>
    /\ reports = << >>
    /\ nextHabitId = 1
    /\ nextTaskId = 1
    /\ now = StartDay
    /\ pc = "idle"
    /\ queue = << >>
    /\ pre = NoPre

\* The clock advances between two commands, to the day of the next one.
Tick ==
    /\ pc = "idle"
    /\ \E d \in Moments : d > now /\ now' = d
    /\ UNCHANGED <<habits, tasks, reports, nextHabitId, nextTaskId, pc, queue,
                   pre>>

\* commands/create_habit.py: Habit(name, periodicity, template).save().
\* REPLACE INTO deletes a habit of the same name first, which the foreign
\* keys of tasks and reports forbid when rows reference it.
CreateHabit(inp) ==
    /\ pc = "idle"
    /\ nextHabitId <= MaxHabitId
    /\ LET dup == {id \in DOMAIN habits : habits[id].name = inp.name}
       IN  IF \E id \in dup : Referenced(id)
           THEN UNCHANGED <<habits, nextHabitId>>
           ELSE /\ habits' =
                     [id \in (DOMAIN habits \ dup) \cup {nextHabitId} |->
                        IF id = nextHabitId
                        THEN [name        |-> inp.name,
                              periodicity |-> inp.periodicity,
                              template    |-> inp.template,
                              streak      |-> 0,
                              updated_at  |-> now]
                        ELSE habits[id]]
                /\ nextHabitId' = nextHabitId + 1
    /\ UNCHANGED <<tasks, reports, nextTaskId, now, pc, queue, pre>>

\* DeleteHabit under "ON DELETE CASCADE": the habit's reports go with it.
DeleteHabitCascade(id) ==
    /\ pc = "idle"
    /\ IF id \in DOMAIN habits
       THEN /\ tasks' = CleanupTasks(tasks, id)
            /\ habits' = [h \in DOMAIN habits \ {id} |-> habits[h]]
            /\ reports' = SelectSeq(reports, LAMBDA r : r.id_habit # id)
       ELSE UNCHANGED <<habits, tasks, reports>>
    /\ UNCHANGED <<nextHabitId, nextTaskId, now, pc, queue, pre>>

\* commands/delete_habit.py: DB.delete_habit(id). The delete of the habit
\* row fails while a report references it, and the uncommitted delete of
\* its tasks is rolled back with it.
DeleteHabit(id) ==
    /\ pc = "idle"
    /\ IF id \in DOMAIN habits /\ ReportsOf(reports, id) = {}
       THEN /\ tasks' = CleanupTasks(tasks, id)
            /\ habits' = [h \in DOMAIN habits \ {id} |-> habits[h]]
       ELSE UNCHANGED <<habits, tasks>>
    /\ UNCHANGED <<reports, nextHabitId, nextTaskId, now, pc, queue, pre>>

\* CompleteTask that flips the flag instead of setting it.
CompleteTaskToggle(t) ==
    /\ pc = "idle"
    /\ IF t \in DOMAIN tasks
       THEN tasks' = [tasks EXCEPT ![t].completed = ~@]
       ELSE UNCHANGED tasks
    /\ UNCHANGED <<habits, reports, nextHabitId, nextTaskId, now, pc,
                   queue, pre>>

\* commands/complete_task.py: Task.get(id_task), completed = True, save().
\* Task.get fails on an id that is not stored.
CompleteTask(t) ==
    /\ pc = "idle"
    /\ IF t \in DOMAIN tasks
       THEN tasks' = [tasks EXCEPT ![t].completed = TRUE]
       ELSE UNCHANGED tasks
    /\ UNCHANGED <<habits, reports, nextHabitId, nextTaskId, now, pc,
                   queue, pre>>

\* Report(id_habit).generate(): the ORM archival of one habit.
ReportGenerate(h) ==
    /\ pc = "idle"
    /\ h \in DOMAIN habits
    /\ Len(reports) < MaxReports
    /\ reports' = Append(reports, ReportSaveRow(habits, tasks, h))
    /\ tasks' = CleanupTasks(tasks, h)
    /\ habits' = ReportGenerateStreak(habits, tasks, h)
    /\ UNCHANGED <<nextHabitId, nextTaskId, now, pc, queue, pre>>

\* sync_tasks, Step A: db.sync_states() is evaluated once, before the loop.
SyncStart ==
    /\ pc = "idle"
    /\ Len(reports) + Cardinality(FinishedNow) <= MaxReports
    /\ nextTaskId + RefillNeed - 1 <= MaxTaskId
    /\ pc' = "archive"
    /\ queue' = SyncStates(habits, tasks, now)
    /\ pre' = [habits |-> habits, tasks |-> tasks, nreports |-> Len(reports),
               nextTaskId |-> nextTaskId]
    /\ UNCHANGED <<habits, tasks, reports, nextHabitId, nextTaskId, now>>

\* One pass of the Step A loop: db.select_tasks and db.generate_report
\* (insert the report, cleanup_tasks, bump_streak or reset_streak).
GenerateReport ==
    /\ pc = "archive"
    /\ queue # << >>
    /\ LET r == Head(queue)
       IN  /\ reports' = Append(reports, GenerateReportRow(r, tasks))
           /\ tasks' = CleanupTasks(tasks, r.id_habit)
           /\ habits' = GenerateReportStreak(habits, r, now)
    /\ queue' = Tail(queue)
    /\ UNCHANGED <<nextHabitId, nextTaskId, now, pc, pre>>

\* sync_tasks, Step B: db.select_habits_to_fulfill() is evaluated once,
\* after the Step A loop has ended.
StartRefill ==
    /\ pc = "archive"
    /\ queue = << >>
    /\ pc' = "refill"
    /\ queue' = SelectHabitsToFulfill(habits, tasks)
    /\ UNCHANGED <<habits, tasks, reports, nextHabitId, nextTaskId, now,
                   pre>>

\* One pass of the Step B loop: db.create_task for every template entry;
\* each call inserts a task and sets the habit's updated_at.
CreateTaskFromHabit ==
    /\ pc = "refill"
    /\ queue # << >>
    /\ LET r == Head(queue)
       IN  /\ tasks' = CreateTasks(tasks, r.id_habit, r.template, nextTaskId)
           /\ nextTaskId' = nextTaskId + Len(r.template)
           /\ habits' = IF Len(r.template) > 0
                        THEN [habits EXCEPT ![r.id_habit].updated_at = now]
                        ELSE habits
    /\ queue' = Tail(queue)
    /\ UNCHANGED <<reports, nextHabitId, now, pc, pre>>

\* sync_tasks returns.
SyncDone ==
    /\ pc = "refill"
    /\ queue = << >>
    /\ pc' = "idle"
    /\ pre' = NoPre
    /\ UNCHANGED <<habits, tasks, reports, nextHabitId, nextTaskId, now,
                   queue>>

Next ==
    \/ Tick
    \/ \E inp \in HabitInputs : CreateHabit(inp)
    \/ \E id \in 1..MaxHabitId : DeleteHabit(id)
    \/ \E t \in 1..MaxTaskId : CompleteTask(t)
    \/ \E h \in 1..MaxHabitId : ReportGenerate(h)
    \/ SyncStart
    \/ GenerateReport
    \/ StartRefill
    \/ CreateTaskFromHabit
    \/ SyncDone

Spec == Init /\ [][Next]_vars

TypeOK ==
    /\ DOMAIN habits \subseteq 1..MaxHabitId
    /\ DOMAIN tasks \subseteq 1..MaxTaskId
    /\ Len(reports) <= MaxReports
    /\ pc \in {"idle", "archive", "refill",
              "inserted", "cleaned", "failed",
              "ReferenceError", "IntegrityError"}

\* ------------------------------------------ sync_tasks, statement by statement
\* DB.generate_report commits after each of its three statements, and
\* DB.create_task after each task; no transaction spans them.  SpecFail
\* runs sync_tasks one committed statement at a time and lets any statement
\* raise: the exception leaves sync_tasks, which catches nothing, and the
\* process ends with what was committed so far.

\* DB.generate_report, first statement: insert the report and commit.
ArchiveInsert ==
    /\ pc = "archive"
    /\ queue # << >>
    /\ reports' = Append(reports, GenerateReportRow(Head(queue), tasks))
    /\ pc' = "inserted"
    /\ UNCHANGED <<habits, tasks, nextHabitId, nextTaskId, now, queue, pre>>

\* DB.generate_report, second statement: cleanup_tasks and its commit.
ArchiveCleanup ==
    /\ pc = "inserted"
    /\ tasks' = CleanupTasks(tasks, Head(queue).id_habit)
    /\ pc' = "cleaned"
    /\ UNCHANGED <<habits, reports, nextHabitId, nextTaskId, now, queue, pre>>

\* DB.generate_report, third statement: bump_streak or reset_streak and its
\* commit; the loop goes on to the next habit.
ArchiveStreak ==
    /\ pc = "cleaned"
    /\ habits' = GenerateReportStreak(habits, Head(queue), now)
    /\ queue' = Tail(queue)
    /\ pc' = "archive"
    /\ UNCHANGED <<tasks, reports, nextHabitId, nextTaskId, now, pre>>

\* One DB.create_task of the Step B loop: the next entry of the template of
\* the habit at the head of the queue; after the last entry the loop goes
\* on to the next habit.
CreateTask ==
    /\ pc = "refill"
    /\ queue # << >>
    /\ LET r == Head(queue)
           k == Cardinality(TasksOf(tasks, r.id_habit))
       IN  IF k < Len(r.template)
           THEN /\ tasks' = CreateTasks(tasks, r.id_habit,
                                        <<r.template[k + 1]>>, nextTaskId)
                /\ nextTaskId' = nextTaskId + 1
                /\ habits' = [habits EXCEPT ![r.id_habit].updated_at = now]
                /\ queue' = IF k + 1 = Len(r.template)
                            THEN Tail(queue) ELSE queue
           ELSE /\ queue' = Tail(queue)
                /\ UNCHANGED <<habits, tasks, nextTaskId>>
    /\ UNCHANGED <<reports, nextHabitId, now, pc, pre>>

\* Fail with the exception swallowed: the loop goes on to the next habit.
FailSkip ==
    /\ pc \in {"archive", "inserted", "cleaned", "refill"}
    /\ queue # << >>
    /\ pc' = IF pc = "refill" THEN "refill" ELSE "archive"
    /\ queue' = Tail(queue)
    /\ UNCHANGED <<habits, tasks, reports, nextHabitId, nextTaskId, now, pre>>

\* The statement sync_tasks is about to execute raises (storage
\* unavailable): nothing of it is committed and the exception leaves
\* sync_tasks, whose loops have no handler.
Fail ==
    /\ pc \in {"archive", "inserted", "cleaned", "refill"}
    /\ queue # << >>
    /\ pc' = "failed"
    /\ UNCHANGED <<habits, tasks, reports, nextHabitId, nextTaskId, now,
                   queue, pre>>

\* The failed command's process ends; the next command finds the store as
\* the failure left it.
Exit ==
    /\ pc = "failed"
    /\ pc' = "idle"
    /\ queue' = << >>
    /\ pre' = NoPre
    /\ UNCHANGED <<habits, tasks, reports, nextHabitId, nextTaskId, now>>

\* The clock advances from the day of creation to the next day, on which
\* the period of a DAILY habit has elapsed.
NextDay ==
    /\ pc = "idle"
    /\ now = StartDay
    /\ now' = StartDay + 1
    /\ UNCHANGED <<habits, tasks, reports, nextHabitId, nextTaskId, pc, queue,
                   pre>>

NextFail ==
    \/ NextDay
    \/ \E inp \in HabitInputs : CreateHabit(inp)
    \/ \E t \in 1..MaxTaskId : CompleteTask(t)
    \/ SyncStart
    \/ ArchiveInsert
    \/ ArchiveCleanup
    \/ ArchiveStreak
    \/ StartRefill
    \/ CreateTask
    \/ SyncDone
    \/ Fail
    \/ Exit

SpecFail == Init /\ [][NextFail]_vars

\* --------------------------------------------------------- the ORM layer
\* Habit, Task and Report used directly in one process, as data_faker.py
\* and the tests use them: SpecOrm.  An exception reaches the caller, who
\* goes on; pc holds the name of the exception until then.

\* Task.from_habit(habit): Task(habit.id_habit, task).save() for every
\* entry of the template.
TaskFromHabit(h) ==
    /\ pc = "idle"
    /\ h \in DOMAIN habits
    /\ nextTaskId + Len(habits[h].template) - 1 <= MaxOrmTaskId
    /\ tasks' = CreateTasks(tasks, h, habits[h].template, nextTaskId)
    /\ nextTaskId' = nextTaskId + Len(habits[h].template)
    /\ UNCHANGED <<habits, reports, nextHabitId, now, pc, queue, pre>>

\* Report(id_habit).generate(), while reports and streak are below the
\* bound.
ReportGenerateAgain(h) ==
    /\ h \in DOMAIN habits
    /\ Len(reports) < MaxOrmReports
    /\ habits[h].streak < MaxOrmReports
    /\ ReportGenerate(h)

\* Habit.delete(): id is the instance's id_habit, NULL when it was never
\* saved.  The delete of the habit row fails while a report references it;
\* the delete of its tasks is then pending in the open transaction.
HabitDelete(id) ==
    /\ pc = "idle"
    /\ IF id = NULL
       THEN /\ pc' = "ReferenceError"
            /\ UNCHANGED <<habits, tasks, pre>>
       ELSE IF id \in DOMAIN habits /\ ReportsOf(reports, id) # {}
       THEN /\ pc' = "IntegrityError"
            /\ tasks' = CleanupTasks(tasks, id)
            /\ pre' = [NoPre EXCEPT !.tasks = tasks]
            /\ UNCHANGED habits
       ELSE /\ tasks' = CleanupTasks(tasks, id)
            /\ habits' = [h \in DOMAIN habits \ {id} |-> habits[h]]
            /\ UNCHANGED <<pc, pre>>
    /\ UNCHANGED <<reports, nextHabitId, nextTaskId, now, queue>>

\* TaskDelete without the check of id_task: "WHERE id_task = NULL" matches
\* no row and nothing is raised.
TaskDeleteUnchecked(id) ==
    /\ pc = "idle"
    /\ tasks' = [t \in DOMAIN tasks \ {id} |-> tasks[t]]
    /\ UNCHANGED <<habits, reports, nextHabitId, nextTaskId, now, pc, queue,
                   pre>>

\* Task.delete(): id is the instance's id_task, NULL when it was never
\* saved.
TaskDelete(id) ==
    /\ pc = "idle"
    /\ IF id = NULL
       THEN pc' = "ReferenceError" /\ UNCHANGED tasks
       ELSE /\ tasks' = [t \in DOMAIN tasks \ {id} |-> tasks[t]]
            /\ UNCHANGED pc
    /\ UNCHANGED <<habits, reports, nextHabitId, nextTaskId, now, queue, pre>>

\* Report.delete(): id is the instance's id_report, NULL when it was never
\* saved; a saved instance is the report stored at position id.
ReportDelete(id) ==
    /\ pc = "idle"
    /\ IF id = NULL
       THEN pc' = "ReferenceError" /\ UNCHANGED reports
       ELSE /\ reports' = [i \in 1..(Len(reports) -
                                     (IF id \in 1..Len(reports) THEN 1 ELSE 0))
                              |-> IF i < id THEN reports[i] ELSE reports[i + 1]]
            /\ UNCHANGED pc
    /\ UNCHANGED <<habits, tasks, nextHabitId, nextTaskId, now, queue, pre>>

\* The caller has caught the exception.  After an IntegrityError the
\* pending delete of the tasks is committed with the caller's next commit,
\* or rolled back when the caller closes the connection instead.
Raised ==
    /\ pc \in {"ReferenceError", "IntegrityError"}
    /\ pc' = "idle"
    /\ pre' = NoPre
    /\ \/ UNCHANGED tasks
       \/ pc = "IntegrityError" /\ tasks' = pre.tasks
    /\ UNCHANGED <<habits, reports, nextHabitId, nextTaskId, now, queue>>

NextOrm ==
    \/ \E inp \in HabitInputs : CreateHabit(inp)
    \/ \E h \in 1..MaxHabitId : TaskFromHabit(h)
    \/ \E t \in 1..MaxOrmTaskId : CompleteTask(t)
    \/ \E h \in 1..MaxHabitId : ReportGenerateAgain(h)
    \/ \E id \in (1..MaxHabitId) \cup {NULL} : HabitDelete(id)
    \/ \E id \in (1..MaxOrmTaskId) \cup {NULL} : TaskDelete(id)
    \/ \E id \in (1..MaxOrmReports) \cup {NULL} : ReportDelete(id)
    \/ Raised

SpecOrm == Init /\ [][NextOrm]_vars

\* ---------------------------------------------------------- vocabulary
\* A step archives a habit when it appends a report; the habit is the one
\* the new report names.  Both DB.generate_report (sync_tasks, Step A) and
\* Report.generate are archivals.
ArchivalStep == Len(reports') = Len(reports) + 1
Archived == reports'[Len(reports')].id_habit
NewReport == reports'[Len(reports')]

\* The periods of section 4.1, in days.
PeriodDays(p) == IF p = DAILY THEN 1 ELSE IF p = WEEKLY THEN 7 ELSE 30

\* now - updated_at >= the habit's period.
PeriodElapsed(hs, h, n) == n - hs[h].updated_at >= PeriodDays(hs[h].periodicity)

\* The sync_tasks command has done all its work and is about to return.
SyncReturns == pc = "refill" /\ queue = << >>

\* The ids of the rows in the running loop's queue.
QueuedIds(q) == {q[i].id_habit : i \in 1..Len(q)}

\* Habit h has a template of n >= 1 entries and owns n tasks, all completed.
AllCompleted(hs, ts, h) ==
    /\ Len(hs[h].template) >= 1
    /\ Cardinality(TasksOf(ts, h)) = Len(hs[h].template)
    /\ \A t \in TasksOf(ts, h) : ts[t].completed

\* The reports for habit h appended since the running sync_tasks started.
NewReportsOf(h) == {i \in ReportsOf(reports, h) : i > pre.nreports}

\* ------------------------------------------------------------------ claims

\* C1: when an archival step archives a habit, the habit's streak becomes
\* its previous streak + 1 if the archived batch holds no uncompleted task
\* (an empty batch included), and 0 if it holds at least one.
C1_StreakUpdate ==
    [][ArchivalStep =>
        habits'[Archived].streak =
            IF UncompletedTasksCount(tasks, Archived) = 0
            THEN habits[Archived].streak + 1
            ELSE 0]_vars

\* A habit whose streak had been raised by a fully completed batch was
\* archived again with an uncompleted task, and its streak is 0.
C1_Witness ==
    \E h \in DOMAIN habits : \E i, j \in ReportsOf(reports, h) :
        /\ i < j
        /\ reports[i].uncompleted_tasks_count = 0
        /\ reports[j].uncompleted_tasks_count > 0
        /\ \A k \in ReportsOf(reports, h) : k <= j
        /\ habits[h].streak = 0

\* C4: for a habit with a template of n >= 1 tasks whose n tasks are all
\* completed, one sync_tasks run appends exactly one report for it, with
\* counts n and 0, raises its streak by exactly 1, and leaves it owning
\* exactly n new uncompleted tasks taken from its template.
C4_CompletedCycle ==
    SyncReturns =>
        \A h \in DOMAIN pre.habits :
            AllCompleted(pre.habits, pre.tasks, h) =>
                /\ Cardinality(NewReportsOf(h)) = 1
                /\ \A i \in NewReportsOf(h) :
                      /\ reports[i].completed_tasks_count =
                             Len(pre.habits[h].template)
                      /\ reports[i].uncompleted_tasks_count = 0
                /\ habits[h].streak = pre.habits[h].streak + 1
                /\ \A t \in TasksOf(tasks, h) :
                      ~tasks[t].completed /\ t >= pre.nextTaskId
                /\ LET new == SelectTasks(tasks, h)
                   IN  /\ Len(new) = Len(habits[h].template)
                       /\ \A k \in 1..Len(new) :
                              new[k].task = habits[h].template[k]

\* A sync_tasks run that found a habit with all its tasks completed is
\* about to return.
C4_Witness ==
    /\ SyncReturns
    /\ \E h \in DOMAIN pre.habits : AllCompleted(pre.habits, pre.tasks, h)

\* C6: every habit's streak is non-negative; a habit is created with
\* streak 0; and the only steps that change the streak of a stored habit
\* are archivals of that habit, which add exactly 1 or set it to 0.
C6_StreakChanges ==
    [][/\ \A h \in DOMAIN habits' : habits'[h].streak >= 0
       /\ \A h \in DOMAIN habits' \ DOMAIN habits : habits'[h].streak = 0
       /\ \A h \in DOMAIN habits' \cap DOMAIN habits :
             habits'[h].streak # habits[h].streak =>
                /\ ArchivalStep
                /\ Archived = h
                /\ \/ habits'[h].streak = habits[h].streak + 1
                   \/ habits'[h].streak = 0]_vars

\* A habit with a positive streak owns tasks created by a refill, one of
\* them completed since; a second habit was created meanwhile.
C6_Witness ==
    \E h \in DOMAIN habits :
        /\ habits[h].streak > 0
        /\ \E t \in TasksOf(tasks, h) : tasks[t].completed
        /\ \E g \in DOMAIN habits : g > h

\* C7: in every report an archival appends, completed_tasks_count +
\* uncompleted_tasks_count is the number of tasks the habit owned when it
\* was archived, and completed_tasks_count is the number of those tasks
\* whose completed flag was set.
C7_ReportCounts ==
    [][ArchivalStep =>
        /\ NewReport.completed_tasks_count + NewReport.uncompleted_tasks_count
              = Cardinality(TasksOf(tasks, Archived))
        /\ NewReport.completed_tasks_count
              = CompletedTasksCount(tasks, Archived)]_vars

\* A batch with a completed and an uncompleted task has been archived.
C7_Witness ==
    \E i \in 1..Len(reports) :
        /\ reports[i].completed_tasks_count > 0
        /\ reports[i].uncompleted_tasks_count > 0
        /\ Len(reports[i].raw_data) = 2

\* C8: right after an archival the archived habit owns no task, and every
\* task of every other habit is still stored, unchanged.
C8_BatchDeleted ==
    [][ArchivalStep =>
        /\ TasksOf(tasks', Archived) = {}
        /\ \A t \in DOMAIN tasks :
              tasks[t].id_habit # Archived =>
                  t \in DOMAIN tasks' /\ tasks'[t] = tasks[t]]_vars

\* Step A of a running sync_tasks has just archived a non-empty batch; the
\* habit owns no task while another habit still owns its own.
C8_Witness ==
    /\ pc = "archive"
    /\ Len(reports) > pre.nreports
    /\ LET r == reports[Len(reports)]
       IN  /\ Len(r.raw_data) > 0
           /\ TasksOf(pre.tasks, r.id_habit) # {}
           /\ TasksOf(tasks, r.id_habit) = {}
           /\ \E g \in DOMAIN habits :
                  g # r.id_habit /\ TasksOf(tasks, g) # {}

\* A sync_tasks command starts: DB.sync_states has just been evaluated.
SyncStartStep == pc = "idle" /\ pc' = "archive"

C3_FinishedByCompletion ==
    [][SyncStartStep =>
        \A h \in DOMAIN habits :
            /\ UncompletedTasksCount(tasks, h) = 0
                  => h \in QueuedIds(queue')
            /\ (UncompletedTasksCount(tasks, h) >= 1
                  /\ ~PeriodElapsed(habits, h, now))
                  => h \notin QueuedIds(queue')]_vars

\* C5: a sync_tasks run leaves every habit with an uncompleted task and a
\* period that has not elapsed untouched: no report is appended for it and
\* its streak and its tasks are what they were.
C5_NotFinishedUntouched ==
    SyncReturns =>
        \A h \in DOMAIN pre.habits :
            (UncompletedTasksCount(pre.tasks, h) >= 1
               /\ ~PeriodElapsed(pre.habits, h, now)) =>
                /\ NewReportsOf(h) = {}
                /\ habits[h].streak = pre.habits[h].streak
                /\ TasksOf(tasks, h) = TasksOf(pre.tasks, h)
                /\ \A t \in TasksOf(tasks, h) : tasks[t] = pre.tasks[t]

\* C9: the report an archival appends stores as current_streak the streak
\* the habit had just before the archival (an integer, never NULL), with
\* the habit's id and name.
C9_ReportStreak ==
    [][ArchivalStep =>
        /\ NewReport.current_streak # NULL
        /\ NewReport.current_streak = habits[Archived].streak
        /\ NewReport.name = habits[Archived].name]_vars

\* C10: an archival sets the habit's updated_at to the time of the
\* archival, so the habit's period has not elapsed right after it.
C10_ArchivalTouches ==
    [][ArchivalStep =>
        /\ habits'[Archived].updated_at = now
        /\ ~PeriodElapsed(habits', Archived, now)]_vars

\* The tasks of habit h that the running sync_tasks found stored and has not
\* deleted, and the tasks it has inserted, in rowid order.  Step B deletes
\* nothing, so the former are the tasks h owned when Step A had ended.
KeptTasks(h) == {t \in TasksOf(tasks, h) : t < pre.nextTaskId}
InsertedTasks(h) == SortedSeq({t \in TasksOf(tasks, h) : t >= pre.nextTaskId})

\* The tasks in seq are one task per entry of h's template, in template
\* order, uncompleted and owned by h.
FromTemplate(seq, h) ==
    /\ Len(seq) = Len(habits[h].template)
    /\ \A k \in 1..Len(seq) :
          tasks[seq[k]] = [id_habit  |-> h,
                           task      |-> habits[h].template[k],
                           completed |-> FALSE]

\* C11: when sync_tasks returns, every habit that owned no task after Step A
\* has been given exactly one task per entry of its template, in template
\* order, with the entry as description, completed = false and the habit as
\* owner; no task has been created for any other habit.
C11_RefillFromTemplate ==
    SyncReturns =>
        \A h \in DOMAIN habits :
            IF KeptTasks(h) = {}
            THEN FromTemplate(InsertedTasks(h), h)
            ELSE InsertedTasks(h) = << >>

\* A sync_tasks run is about to return; it has refilled one habit from a
\* template of two entries and has left alone another that kept its tasks.
C11_Witness ==
    /\ SyncReturns
    /\ \E h, g \in DOMAIN habits :
          /\ Len(InsertedTasks(h)) = 2
          /\ KeptTasks(h) = {}
          /\ KeptTasks(g) # {}

\* C12: a second Step B right after the first creates nothing: every habit
\* it selects owns no task and has nothing in its template, so the stored
\* tasks stay what the first Step B left.
C12_RefillIdempotent ==
    SyncReturns =>
        LET again == SelectHabitsToFulfill(habits, tasks)
        IN  \A i \in 1..Len(again) :
                /\ TasksOf(tasks, again[i].id_habit) = {}
                /\ CreateTasks(tasks, again[i].id_habit, again[i].template,
                               nextTaskId) = tasks

\* Step B has just refilled a habit; a habit with an empty template is
\* stored too, the one a second Step B would select.
C12_Witness ==
    /\ SyncReturns
    /\ \E h \in DOMAIN habits : InsertedTasks(h) # << >>
    /\ SelectHabitsToFulfill(habits, tasks) # << >>

\* C13: when sync_tasks returns, every habit with a non-empty template that
\* this run archived owns exactly one uncompleted task per template entry.
C13_RefilledInSameRun ==
    SyncReturns =>
        \A h \in DOMAIN habits :
            (NewReportsOf(h) # {} /\ habits[h].template # << >>) =>
                /\ FromTemplate(SortedSeq(TasksOf(tasks, h)), h)
                /\ UncompletedTasksCount(tasks, h) = Len(habits[h].template)
                /\ CompletedTasksCount(tasks, h) = 0

\* A sync_tasks run that archived a batch holding a completed and an
\* uncompleted task is about to return.
C13_Witness ==
    /\ SyncReturns
    /\ \E h \in DOMAIN habits : \E i \in NewReportsOf(h) :
          /\ reports[i].completed_tasks_count > 0
          /\ reports[i].uncompleted_tasks_count > 0
          /\ habits[h].template # << >>

\* C14: a sync_tasks run that finds a habit with an empty template and no
\* task appends exactly one report for it, with both counts 0, raises its
\* streak by 1 and leaves it without tasks, so that the next run finds it
\* the same way.
C14_EmptyHabitEverySync ==
    SyncReturns =>
        \A h \in DOMAIN pre.habits :
            (pre.habits[h].template = << >> /\ TasksOf(pre.tasks, h) = {}) =>
                /\ Cardinality(NewReportsOf(h)) = 1
                /\ \A i \in NewReportsOf(h) :
                      /\ reports[i].completed_tasks_count = 0
                      /\ reports[i].uncompleted_tasks_count = 0
                /\ habits[h].streak = pre.habits[h].streak + 1
                /\ TasksOf(tasks, h) = {}

\* The third sync_tasks run in a row on a habit with an empty template is
\* about to return, all three on the day the habit was created; its three
\* reports were written by DB.generate_report.
C14_Witness ==
    /\ SyncReturns
    /\ now = StartDay
    /\ \E h \in DOMAIN habits :
          /\ habits[h].template = << >>
          /\ Cardinality(ReportsOf(reports, h)) = 3
          /\ \A i \in ReportsOf(reports, h) : reports[i].current_streak = NULL
          /\ habits[h].streak = 3

\* C15: whenever no command is running, deleting a stored habit succeeds:
\* the delete_habit command ends with the habit and all its tasks gone
\* and with every report, those of the habit included, still stored.
C15_DeleteHabit ==
    pc = "idle" =>
        \A id \in DOMAIN habits :
            ENABLED (/\ DeleteHabit(id)
                     /\ id \notin DOMAIN habits'
                     /\ TasksOf(tasks', id) = {}
                     /\ reports' = reports)

\* C16: no step stores a habit under a name a stored habit already has;
\* such a create_habit leaves habits, tasks and reports as they are, so the
\* habit of that name keeps its id, streak and template; and no two stored
\* habits share a name.
C16_DuplicateName ==
    [][/\ \A g \in DOMAIN habits' \ DOMAIN habits : \A h \in DOMAIN habits :
             habits'[g].name = habits[h].name =>
                 /\ habits' = habits
                 /\ tasks' = tasks
                 /\ reports' = reports
       /\ \A g, h \in DOMAIN habits' :
             g # h => habits'[g].name # habits'[h].name]_vars

\* C17: no step modifies or removes a stored report: the reports of the
\* state before are a prefix of the reports of the state after.
C17_ReportsAppendOnly ==
    [][/\ Len(reports') >= Len(reports)
       /\ \A i \in 1..Len(reports) : reports'[i] = reports[i]]_vars

\* A habit has a report written by Report.generate and a later one written
\* by DB.generate_report, and another habit, created after the first, has
\* been deleted or replaced since.
C17_Witness ==
    /\ pc = "idle"
    /\ \E i, j \in 1..Len(reports) :
          /\ i < j
          /\ reports[i].id_habit = reports[j].id_habit
          /\ reports[i].current_streak # NULL
          /\ reports[j].current_streak = NULL
    /\ Cardinality(DOMAIN habits) < nextHabitId - 1

\* The finished predicate of section 4.1: the habit's period has elapsed or
\* it owns no uncompleted task.
Finished(hs, ts, h, n) ==
    PeriodElapsed(hs, h, n) \/ UncompletedTasksCount(ts, h) = 0

\* The ids of the tasks recorded in the raw_data of report r.
ArchivedTaskIds(r) == {r.raw_data[k].id_task : k \in 1..Len(r.raw_data)}

\* C18: when sync_tasks returns it has appended exactly one report for
\* every habit that was finished when Step A looked at it and none for any
\* other habit, and every task its Step B inserted is still stored and is
\* in none of the reports it appended.
C18_OneReportPerFinished ==
    SyncReturns =>
        /\ \A h \in DOMAIN pre.habits :
              Cardinality(NewReportsOf(h)) =
                  IF Finished(pre.habits, pre.tasks, h, now) THEN 1 ELSE 0
        /\ \A t \in pre.nextTaskId..(nextTaskId - 1) :
              /\ t \in DOMAIN tasks
              /\ \A i \in (pre.nreports + 1)..Len(reports) :
                    t \notin ArchivedTaskIds(reports[i])

\* The reports of habit h, oldest first.
HabitReports(rs, h) == SelectSeq(rs, LAMBDA r : r.id_habit = h)

RECURSIVE TrailingCompleted(_)
\* The number of reports at the end of seq, counted back from the last one,
\* that have no uncompleted task.
TrailingCompleted(seq) ==
    IF seq = << >> THEN 0
    ELSE IF seq[Len(seq)].uncompleted_tasks_count = 0
         THEN 1 + TrailingCompleted(SubSeq(seq, 1, Len(seq) - 1))
         ELSE 0

\* C19: between sync_tasks runs, the streak of every habit is the number of
\* its most recent consecutive reports that have uncompleted_tasks_count 0:
\* 0 when its latest report has an uncompleted task or it has no report.
C19_StreakIsRun ==
    pc = "idle" =>
        \A h \in DOMAIN habits :
            habits[h].streak = TrailingCompleted(HabitReports(reports, h))

\* A habit has three reports: the empty batch of its first archival, then
\* a batch with an uncompleted task, then a fully completed batch; its
\* streak is 1.
C19_Witness ==
    /\ pc = "idle"
    /\ \E h \in DOMAIN habits :
          LET seq == HabitReports(reports, h)
          IN  /\ Len(seq) = 3
              /\ seq[1].uncompleted_tasks_count = 0
              /\ seq[2].uncompleted_tasks_count > 0
              /\ seq[3].uncompleted_tasks_count = 0
              /\ seq[3].completed_tasks_count > 0
              /\ habits[h].streak = 1

\* The largest streak habit h has held: the longest run of consecutive
\* reports of h without an uncompleted task.
LongestRun(rs, h) ==
    LET seq == HabitReports(rs, h)
    IN  IF seq = << >> THEN 0
        ELSE CHOOSE m \in 0..Len(seq) :
               /\ \E k \in 1..Len(seq) :
                     TrailingCompleted(SubSeq(seq, 1, k)) = m
               /\ \A k \in 1..Len(seq) :
                     TrailingCompleted(SubSeq(seq, 1, k)) <= m

\* C20: for a habit with reports, report_longest_streak_given_habit
\* returns the largest streak the habit has held so far, and
\* report_longest_streak returns the largest such value of all habits.
C20_LongestStreak ==
    pc = "idle" =>
        /\ \A h \in DOMAIN habits :
              ReportsOf(reports, h) # {} =>
                  ReportLongestStreakGivenHabit(reports, h)
                      = LongestRun(reports, h)
        /\ reports # << >> =>
              \E h \in DOMAIN habits :
                  /\ ReportLongestStreak(reports) = LongestRun(reports, h)
                  /\ \A g \in DOMAIN habits :
                        LongestRun(reports, g) <= LongestRun(reports, h)

\* C22: a stored task that is completed stays completed for as long as it
\* is stored, and a step that completes a task neither adds nor removes a
\* task.
C22_CompletedStays ==
    [][\A t \in DOMAIN tasks \cap DOMAIN tasks' :
          /\ tasks[t].completed => tasks'[t].completed
          /\ (~tasks[t].completed /\ tasks'[t].completed) =>
                 /\ DOMAIN tasks' = DOMAIN tasks
                 /\ nextTaskId' = nextTaskId]_vars

\* A habit owns a completed and an uncompleted task while a sync_tasks run,
\* started after the completion, is between its two steps.
C22_Witness ==
    /\ pc = "refill"
    /\ \E h \in DOMAIN habits : \E t, u \in TasksOf(tasks, h) :
          /\ tasks[t].completed
          /\ ~tasks[u].completed
          /\ t \in DOMAIN pre.tasks /\ pre.tasks[t].completed

\* C25: a step that creates a task for a habit, or that marks a task of a
\* habit completed, sets the habit's updated_at to the time of the step.
C25_TaskOpsTouchHabit ==
    [][/\ \A t \in DOMAIN tasks' \ DOMAIN tasks :
             habits'[tasks'[t].id_habit].updated_at = now
       /\ \A t \in DOMAIN tasks \cap DOMAIN tasks' :
             (~tasks[t].completed /\ tasks'[t].completed) =>
                 habits'[tasks'[t].id_habit].updated_at = now]_vars

\* C26: the habit id of every stored task is the id of a stored habit.
C26_TaskHasHabit ==
    \A t \in DOMAIN tasks : tasks[t].id_habit \in DOMAIN habits

\* A habit has been deleted or replaced, and a habit created after it owns
\* tasks, one of them completed.
C26_Witness ==
    /\ Cardinality(DOMAIN habits) < nextHabitId - 1
    /\ \E g \in DOMAIN habits : \E t \in TasksOf(tasks, g) :
          /\ g > 1
          /\ tasks[t].completed

\* C27: a step leaves the name of every habit that stays stored as it was,
\* and the habit stored under a name after the step has the id_habit, the
\* periodicity and the template of the habit stored under that name before
\* it; only a step that deletes the habit ends this.
C27_HabitFieldsKept ==
    [][/\ \A h \in DOMAIN habits \cap DOMAIN habits' :
             habits'[h].name = habits[h].name
       /\ \A h \in DOMAIN habits : \A g \in DOMAIN habits' :
             habits'[g].name = habits[h].name =>
                 /\ g = h
                 /\ habits'[g].periodicity = habits[h].periodicity
                 /\ habits'[g].template = habits[h].template]_vars

C29_BatchSize ==
    pc = "idle" =>
        \A h \in DOMAIN habits :
            \/ TasksOf(tasks, h) = {}
            \/ Cardinality(TasksOf(tasks, h)) = Len(habits[h].template)

\* Between commands one habit owns a full batch of two tasks, refilled
\* after an earlier batch of its own was archived, and a newer habit with a
\* template owns none yet.
C29_Witness ==
    /\ pc = "idle"
    /\ \E h, g \in DOMAIN habits :
          /\ Cardinality(TasksOf(tasks, h)) = 2
          /\ \E i \in ReportsOf(reports, h) : Len(reports[i].raw_data) = 2
          /\ habits[g].template # << >>
          /\ TasksOf(tasks, g) = {}

\* Habit h is new: no task was ever created for it and it has never been
\* archived.
NewHabit(hs, ts, n, h) ==
    /\ hs[h].template # << >>
    /\ hs[h].streak = 0
    /\ TasksOf(ts, h) = {}
    /\ \A i \in ReportsOf(reports, h) : i > n

\* C30: the first sync_tasks run on a new habit with a non-empty template
\* appends one report for it with counts 0 and 0, raises its streak from 0
\* to 1 and then creates its first batch of tasks.
C30_FirstSync ==
    SyncReturns =>
        \A h \in DOMAIN pre.habits :
            NewHabit(pre.habits, pre.tasks, pre.nreports, h) =>
                /\ Cardinality(NewReportsOf(h)) = 1
                /\ \A i \in NewReportsOf(h) :
                      /\ reports[i].completed_tasks_count = 0
                      /\ reports[i].uncompleted_tasks_count = 0
                      /\ reports[i].raw_data = << >>
                /\ habits[h].streak = 1
                /\ FromTemplate(SortedSeq(TasksOf(tasks, h)), h)

\* The first sync_tasks run on a new habit, on the day the habit was
\* created, is about to return.
C30_Witness ==
    /\ SyncReturns
    /\ \E h \in DOMAIN pre.habits :
          /\ NewHabit(pre.habits, pre.tasks, pre.nreports, h)
          /\ pre.habits[h].updated_at = now

\* C23: when a sync_tasks run has failed, the store holds no half-done
\* archival: for every report the run appended, none of the tasks the
\* report lists is still stored and the habit's streak is the updated one
\* (the streak before the run + 1 for a report without uncompleted tasks,
\* 0 otherwise).
C23_ArchiveAtomic ==
    pc = "failed" =>
        \A h \in DOMAIN habits : \A i \in NewReportsOf(h) :
            /\ ArchivedTaskIds(reports[i]) \cap DOMAIN tasks = {}
            /\ habits[h].streak =
                   IF reports[i].uncompleted_tasks_count = 0
                   THEN pre.habits[h].streak + 1
                   ELSE 0

\* The three groups of stored rows.
Store == <<habits, tasks, reports>>

\* C24: a statement that raises ends the sync_tasks run as a failure and
\* changes nothing that was committed, and the failed run does nothing
\* more; while a run goes on, a habit leaves the Step A loop only archived
\* (report appended, tasks deleted) and the Step B loop only with its full
\* batch, so no habit is skipped.
C24_FailLoudly ==
    [][/\ (pc # "failed" /\ pc' = "failed") => Store' = Store
       /\ pc = "failed" => (pc' = "idle" /\ Store' = Store)
       /\ (pc \in {"archive", "inserted", "cleaned"}
             /\ queue # << >> /\ queue' = Tail(queue)) =>
              LET h == Head(queue).id_habit
              IN  /\ \E i \in (pre.nreports + 1)..Len(reports') :
                        reports'[i].id_habit = h
                  /\ TasksOf(tasks', h) = {}
       /\ (pc = "refill" /\ queue # << >> /\ queue' = Tail(queue)) =>
              LET h == Head(queue).id_habit
              IN  Cardinality(TasksOf(tasks', h)) = Len(habits'[h].template)
      ]_vars

\* A sync_tasks run has failed inside the archive sequence of its second
\* habit, whose report is stored and whose streak is not yet updated; the
\* report, the task deletion and the streak of the habit it archived first
\* are stored.
C24_Witness ==
    /\ pc = "failed"
    /\ queue # << >>
    /\ LET h == Head(queue).id_habit
       IN  /\ NewReportsOf(h) # {}
           /\ habits[h].streak = pre.habits[h].streak
           /\ \E g \in DOMAIN habits \ {h} : \E i \in NewReportsOf(g) :
                  /\ Len(reports[i].raw_data) > 0
                  /\ TasksOf(tasks, g) = {}
                  /\ habits[g].streak # pre.habits[g].streak

\* The call ends with a ReferenceError at the caller and the store as it
\* was.
RaisesAndKeeps == pc' = "ReferenceError" /\ Store' = Store

\* C21: whatever is stored, delete() on a Habit, a Task or a Report that
\* was never saved (its id is NULL) raises a ReferenceError, has no other
\* outcome, and changes no stored habit, task or report.
C21_UnsavedDelete ==
    pc = "idle" =>
        /\ ENABLED (HabitDelete(NULL) /\ RaisesAndKeeps)
        /\ ENABLED (TaskDelete(NULL) /\ RaisesAndKeeps)
        /\ ENABLED (ReportDelete(NULL) /\ RaisesAndKeeps)
        /\ ~ENABLED (HabitDelete(NULL) /\ ~RaisesAndKeeps)
        /\ ~ENABLED (TaskDelete(NULL) /\ ~RaisesAndKeeps)
        /\ ~ENABLED (ReportDelete(NULL) /\ ~RaisesAndKeeps)

\* A delete() has just raised a ReferenceError while a habit, a completed
\* task of it and a report are stored.
C21_Witness ==
    /\ pc = "ReferenceError"
    /\ reports # << >>
    /\ \E t \in DOMAIN tasks :
          tasks[t].completed /\ tasks[t].id_habit \in DOMAIN habits

====
